---------------------------- MODULE Spec2Model ----------------------------
(***************************************************************************)
(* Model of the session protocol layer of alt-sendme,                      *)
(* src/src/core/session.rs: the message codec (SessionMessage), the        *)
(* shared SessionState with send_message and emit_event, the per-stream    *)
(* receiver handle_uni_stream, the acceptor SessionHandler::accept and the *)
(* initiator connect_session.                                              *)
(*                                                                         *)
(* Byte strings are modelled as sequences of tokens, each token carrying   *)
(* the number of bytes it stands for, so that encoded lengths of 10 MiB    *)
(* and of 4 GiB can be represented.  A String is a record [id, len]: an    *)
(* identity and the length in bytes of its JSON form without the quotes.   *)
(* Lengths are two-limb numbers [hi, lo], hi * 65536 + lo, because a       *)
(* usize length can exceed what TLC's integers hold.                       *)
(***************************************************************************)
EXTENDS Integers, Sequences, FiniteSets, TLC

\* ------------------------------------------------------------------ bounds
\* Number of connections the model follows.
MaxConns == 2
\* Number of inbound streams the remote environment opens.
MaxStreams == 2
\* Number of send_message calls.
MaxSends == 2
\* Inbound streams and send_message calls in the specification of the whole
\* (Spec), where both connections are followed; WholeSends is also the
\* number of sends of the two-peer liveness specification and of messages of
\* the codec specification.
WholeStreams == 1
WholeSends == 1
\* Connections in the specification of the receivers (SpecRecv).
RecvConns == 1

Conns == 1..MaxConns
\* Session 0 is the SessionState owned by the SessionHandler (session.rs:116);
\* session c >= 1 is the SessionState created by connect_session for
\* connection c (session.rs:278).
Sessions == 0..MaxConns
EnvStreams == 1..MaxStreams
Sends == 1..MaxSends
\* The outbound stream opened by send k has id MaxStreams + k.
Streams == 1..(MaxStreams + MaxSends)
StreamOfSend(k) == MaxStreams + k

\* What conn.remote_node_id() can answer on connection c: the identity of
\* the remote node (connection c comes from node c), or 0 for an error.
NodeAnswers(c) == {c, 0}

\* ------------------------------------------------------------------- codec
\* A length (usize): hi * 65536 + lo with lo < 65536.
Limb == 256 * 256
Sz(x) == [hi |-> x \div Limb, lo |-> x % Limb]
SzAdd(a, b) ==
    [hi |-> a.hi + b.hi + ((a.lo + b.lo) \div Limb), lo |-> (a.lo + b.lo) % Limb]
\* a - b, for a >= b.
SzSub(a, b) ==
    IF a.lo >= b.lo THEN [hi |-> a.hi - b.hi, lo |-> a.lo - b.lo]
    ELSE [hi |-> a.hi - b.hi - 1, lo |-> a.lo + Limb - b.lo]
SzGt(a, b) == a.hi > b.hi \/ (a.hi = b.hi /\ a.lo > b.lo)
SzLe(a, b) == ~SzGt(a, b)

\* The ceiling of handle_uni_stream, 10 * 1024 * 1024 (session.rs:138).
MaxMessageLen == Sz(10 * 1024 * 1024)

Str(id, len) == [id |-> id, len |-> len]

Text(content) == [variant |-> "Text", content |-> content]
FileOffer(name, size, hash) ==
    [variant |-> "FileOffer", name |-> name, size |-> size, hash |-> hash]
FileAccept(hash) == [variant |-> "FileAccept", hash |-> hash]
CallSignal(signal_type, data) ==
    [variant |-> "CallSignal", signal_type |-> signal_type, data |-> data]

\* Result of a failed decode.
DecodeError == [variant |-> "DecodeError"]

\* Tokens of a byte string: a literal run of bytes, a JSON string, a JSON
\* number, or the remainder of a token cut by a short read.  n is the number
\* of bytes.
Lit(s) == [k |-> "lit", v |-> s, num |-> Sz(0), n |-> Sz(Len(s))]
JStr(s) == [k |-> "str", v |-> s.id, num |-> s.len, n |-> SzAdd(s.len, Sz(2))]
RECURSIVE Digits(_)
Digits(x) == IF x < 10 THEN 1 ELSE 1 + Digits(x \div 10)
JNum(x) == [k |-> "num", v |-> "", num |-> Sz(x), n |-> Sz(Digits(x))]
Cut(n) == [k |-> "cut", v |-> "", num |-> Sz(0), n |-> n]

RECURSIVE ByteLen(_)
ByteLen(bytes) ==
    IF bytes = <<>> THEN Sz(0) ELSE SzAdd(Head(bytes).n, ByteLen(Tail(bytes)))

\* The first n bytes of a byte string; a token that straddles the cut is
\* replaced by what is left of it.
RECURSIVE TakeBytes(_, _)
TakeBytes(bytes, n) ==
    IF n = Sz(0) \/ bytes = <<>> THEN <<>>
    ELSE IF SzLe(Head(bytes).n, n)
         THEN <<Head(bytes)>> \o TakeBytes(Tail(bytes), SzSub(n, Head(bytes).n))
         ELSE <<Cut(n)>>

\* serde_json::to_vec of the externally tagged enum (session.rs:16-36).
to_bytes(m) ==
    CASE m.variant = "Text" ->
           <<Lit("{\"Text\":{\"content\":"), JStr(m.content), Lit("}}")>>
      [] m.variant = "FileOffer" ->
           <<Lit("{\"FileOffer\":{\"name\":"), JStr(m.name),
             Lit(",\"size\":"), JNum(m.size),
             Lit(",\"hash\":"), JStr(m.hash), Lit("}}")>>
      [] m.variant = "FileAccept" ->
           <<Lit("{\"FileAccept\":{\"hash\":"), JStr(m.hash), Lit("}}")>>
      [] m.variant = "CallSignal" ->
           <<Lit("{\"CallSignal\":{\"signal_type\":"), JStr(m.signal_type),
             Lit(",\"data\":"), JStr(m.data), Lit("}}")>>

IsStr(t) == t.k = "str"
IsNum(t) == t.k = "num"
\* Mutant: the quotes are counted into the string.
StrOf_quoted(t) == Str(t.v, t.n)

\* The String a JSON string token decodes to.
StrOf(t) == Str(t.v, t.num)

\* serde_json::from_slice (session.rs:39-41): the bytes must be exactly one
\* encoded variant, nothing missing and nothing after it.
from_bytes(b) ==
    CASE Len(b) = 3 /\ b[1] = Lit("{\"Text\":{\"content\":") /\ IsStr(b[2])
         /\ b[3] = Lit("}}") ->
           Text(StrOf(b[2]))
      [] Len(b) = 7 /\ b[1] = Lit("{\"FileOffer\":{\"name\":") /\ IsStr(b[2])
         /\ b[3] = Lit(",\"size\":") /\ IsNum(b[4])
         /\ b[5] = Lit(",\"hash\":") /\ IsStr(b[6]) /\ b[7] = Lit("}}") ->
           FileOffer(StrOf(b[2]), b[4].num.hi * Limb + b[4].num.lo, StrOf(b[6]))
      [] Len(b) = 3 /\ b[1] = Lit("{\"FileAccept\":{\"hash\":") /\ IsStr(b[2])
         /\ b[3] = Lit("}}") ->
           FileAccept(StrOf(b[2]))
      [] Len(b) = 5 /\ b[1] = Lit("{\"CallSignal\":{\"signal_type\":")
         /\ IsStr(b[2]) /\ b[3] = Lit(",\"data\":") /\ IsStr(b[4])
         /\ b[5] = Lit("}}") ->
           CallSignal(StrOf(b[2]), StrOf(b[4]))
      [] OTHER -> DecodeError

\* Mutant: the length is written little-endian.
to_le_bytes(len) ==
    <<len.lo % 256, len.lo \div 256, len.hi % 256, len.hi \div 256>>

\* len.to_be_bytes() of a u32 (session.rs:79).
to_be_bytes(len) ==
    <<len.hi \div 256, len.hi % 256, len.lo \div 256, len.lo % 256>>

\* u32::from_be_bytes(len_bytes) as usize (session.rs:135).
from_be_bytes(b) == [hi |-> b[1] * 256 + b[2], lo |-> b[3] * 256 + b[4]]

\* bytes.len() as u32 (session.rs:75): the cast keeps the low 32 bits.
len_as_u32(bytes) == [hi |-> ByteLen(bytes).hi % Limb, lo |-> ByteLen(bytes).lo]

\* The JSON value handed to the sink for a decoded message
\* (session.rs:155-191), as an object: a record of its members.
payload_of(m) ==
    CASE m.variant = "Text" -> [type |-> "text", content |-> m.content]
      [] m.variant = "FileOffer" ->
           [type |-> "file_offer", name |-> m.name, size |-> m.size,
            hash |-> m.hash]
      [] m.variant = "FileAccept" -> [type |-> "file_accept", hash |-> m.hash]
      [] m.variant = "CallSignal" ->
           [type |-> "call_signal", signal_type |-> m.signal_type,
            data |-> m.data]


\* --------------------------------------------------------------- transport
\* read_exact on a receive stream (session.rs:131-134, 145-148): the set of
\* results the transport can give when `avail` bytes have arrived and `need`
\* are asked for.  The empty set means the read is still suspended.
ReadOutcomes(avail, need, wst, live) ==
    IF SzLe(need, avail)
    THEN {"ok"} \cup (IF wst = "reset" \/ ~live THEN {"err"} ELSE {})
    ELSE IF wst \in {"fin", "reset"} \/ ~live THEN {"err"} ELSE {}

\* What the transport can answer to open_uni, write_all and finish.
WriteOutcomes(live) == IF live THEN {TRUE, FALSE} ELSE {FALSE}

Hi == Str("hi", Sz(2))
H1 == Str("h1", Sz(2))
\* Length of the encoding of Text around its content: {"Text":{"content":""}}
TextOverhead == ByteLen(to_bytes(Text(Str("", Sz(0)))))

\* A stream as the remote wrote it: the prefix bytes, the body and whether
\* the remote finished the stream.
Framed(m) ==
    [prefix |-> to_be_bytes(len_as_u32(to_bytes(m))), body |-> to_bytes(m),
     st |-> "fin"]

WellFormedContents ==
    { Framed(Text(Hi)),
      Framed(FileOffer(Str("a.txt", Sz(5)), 7, H1)),
      Framed(Text(Str("big", SzSub(MaxMessageLen, TextOverhead)))) }

MalformedContents ==
    { \* declared length one over the ceiling, body present
      [prefix |-> to_be_bytes(SzAdd(MaxMessageLen, Sz(1))), body |-> to_bytes(Text(Hi)),
       st |-> "fin"],
      \* declared length at the ceiling, body shorter than declared
      [prefix |-> to_be_bytes(MaxMessageLen), body |-> to_bytes(Text(Hi)),
       st |-> "fin"],
      \* stream closed inside the prefix
      [prefix |-> <<0, 0>>, body |-> <<>>, st |-> "fin"],
      \* well-framed bytes that are no message
      [prefix |-> to_be_bytes(Sz(5)), body |-> <<Lit("hello")>>, st |-> "fin"],
      \* declared length shorter than the message: a truncated encoding
      [prefix |-> to_be_bytes(Sz(10)), body |-> to_bytes(Text(Hi)), st |-> "fin"],
      \* declared length one more than what arrives
      [prefix |-> to_be_bytes(SzAdd(ByteLen(to_bytes(Text(Hi))), Sz(1))),
       body |-> to_bytes(Text(Hi)), st |-> "fin"] }

\* A stream on which the remote never sends anything and never closes.
StalledContents == { [prefix |-> <<>>, body |-> <<>>, st |-> "open"] }

InboundContents == WellFormedContents \cup MalformedContents \cup StalledContents

\* The inbound streams of the specification of the whole: a message, a
\* declared length over the ceiling, a stream that stays silent.
MainContents ==
    { Framed(Text(Hi)),
      [prefix |-> to_be_bytes(SzAdd(MaxMessageLen, Sz(1))),
       body |-> to_bytes(Text(Hi)), st |-> "fin"] } \cup StalledContents

\* Messages handed to send_message.
SendMessages == { Text(Hi) }

\* ------------------------------------------------------------------- state
VARIABLES
    sess,       \* sess[s]: the SessionState s (session.rs:45-49)
    stateLock,  \* stateLock[s]: holder of the Mutex around SessionState s
    connLock,   \* connLock[c]: holder of the Mutex around connection c
    conn,       \* conn[c]: connection c and the task serving it
    wire,       \* wire[st]: the bytes of stream st in the transport
    recv,       \* recv[st]: the handle_uni_stream task of stream st
    send,       \* send[k]: the k-th send_message call
    events,     \* events[s]: what the sink of session s was handed, in order
    link        \* link[c]: the local connection at the other end of c, or 0

vars == <<sess, stateLock, connLock, conn, wire, recv, send, events, link>>

NoHolder == <<"none", 0>>
NoMsg == [variant |-> "None"]
NoPayload == [type |-> "-"]

\* SessionState::new (session.rs:52-58): both fields None (0).
NewSessionState(app) ==
    [exists |-> TRUE, app_handle |-> app, peer_id |-> 0, connection |-> 0]
NoSession ==
    [exists |-> FALSE, app_handle |-> FALSE, peer_id |-> 0, connection |-> 0]

InitConn ==
    [pc |-> "idle", role |-> "none", peer |-> 0, live |-> FALSE, result |-> "",
     steps |-> <<>>, acceptErr |-> FALSE]
InitWire ==
    [used |-> FALSE, to |-> 0, from |-> 0, prefix |-> <<>>, body |-> <<>>,
     st |-> "open"]
InitRecv ==
    [pc |-> "none", conn |-> 0, sess |-> 0, len |-> Sz(0), alloc |-> FALSE,
     nread |-> Sz(0), msg |-> NoMsg, res |-> ""]
InitSend ==
    [pc |-> "idle", sess |-> 0, msg |-> NoMsg, conn |-> 0, ops |-> <<>>,
     res |-> ""]

\* SessionHandler::new (session.rs:114-118) with or without an AppHandle; no
\* connection yet.
InitCommon ==
    /\ \E app \in BOOLEAN :
         sess = [s \in Sessions |-> IF s = 0 THEN NewSessionState(app) ELSE NoSession]
    /\ stateLock = [s \in Sessions |-> NoHolder]
    /\ connLock = [c \in Conns |-> NoHolder]
    /\ conn = [c \in Conns |-> InitConn]
    /\ wire = [st \in Streams |-> InitWire]
    /\ recv = [st \in Streams |-> InitRecv]
    /\ send = [k \in Sends |-> InitSend]
    /\ events = [s \in Sessions |-> <<>>]

\* The remote end of every connection is the environment.
Init == InitCommon /\ link = [c \in Conns |-> 0]

\* The SessionState a task of connection c works on: the handler's for an
\* accepted connection (session.rs:223), the new one for an initiated one
\* (session.rs:291).
SessOf(c) == IF conn[c].role = "acceptor" THEN 0 ELSE c

\* -------------------------------------------------------------------- emit
\* Mutant: the sink's error is returned to the caller of emit_event.
emit_event_propagates(app, log, name, payload, src, sinkOk) ==
    [log |-> IF app
             THEN Append(log, [name |-> name, payload |-> payload, src |-> src,
                               ok |-> sinkOk])
             ELSE log,
     err |-> app /\ ~sinkOk]

\* SessionState::emit_event (session.rs:99-105).  log is what the sink has
\* been handed; err is what the caller gets back: nothing, whatever the sink
\* answered.
emit_event(app, log, name, payload, src, sinkOk) ==
    [log |-> IF app
             THEN Append(log, [name |-> name, payload |-> payload, src |-> src,
                               ok |-> sinkOk])
             ELSE log,
     err |-> FALSE]

\* Mutant: the notification is left out.
notify_connected_never(app, log, c, sinkOk) == [log |-> log, err |-> FALSE]

\* The session-connected notification of accept and connect_session
\* (session.rs:212-214, 285-287): `let _ =` drops the sink's answer.
notify_connected(app, log, c, sinkOk) ==
    [log |-> IF app
             THEN Append(log, [name |-> "session-connected", payload |-> NoPayload,
                               src |-> <<"conn", c>>, ok |-> sinkOk])
             ELSE log,
     err |-> FALSE]

\* The answers of a sink: none to choose when there is no sink.
SinkAnswers(app) == IF app THEN {TRUE, FALSE} ELSE {TRUE}

\* ---------------------------------------------------------------- acceptor
\* Mutant: the connection handle is not stored.
set_connection_peer_only(state, peer, c) == [state EXCEPT !.peer_id = peer]

\* The two assignments of accept and connect_session (session.rs:208-209,
\* 281-282).
set_connection(state, peer, c) ==
    [state EXCEPT !.peer_id = peer, !.connection = c]

\* Mutant: the error of accept_uni is returned from accept.
accept_return_err == "Err"

\* What accept returns when its loop ends (session.rs:239-240).
accept_return == "Ok"

\* The transport has handed inbound connection c to SessionHandler::accept,
\* and self.state.lock().await returns (session.rs:198-207).  Connections
\* are numbered in the order they are served.
accept_lock(c) ==
    /\ conn[c].pc = "idle"
    /\ \A d \in Conns : d < c => conn[d].pc # "idle"
    /\ stateLock[0] = NoHolder
    /\ stateLock' = [stateLock EXCEPT ![0] = <<"accept", c>>]
    /\ conn' = [conn EXCEPT ![c] = [@ EXCEPT !.pc = "locked", !.role = "acceptor",
                                              !.live = TRUE]]
    /\ UNCHANGED <<sess, connLock, wire, recv, send, events, link>>

\* The block under the lock (session.rs:208-215), p being what
\* conn.remote_node_id() answers: expect("peer id") panics on an error (0),
\* before anything is stored; otherwise both fields are stored and the sink,
\* if any, is notified.  The guard is dropped either way.
accept_populate(c, p, sinkOk) ==
    /\ conn[c].pc = "locked"
    /\ stateLock' = [stateLock EXCEPT ![0] = NoHolder]
    /\ IF p = 0
       THEN /\ conn' = [conn EXCEPT ![c] = [@ EXCEPT !.pc = "panicked",
                                                     !.result = "Panic"]]
            /\ UNCHANGED <<sess, events>>
       ELSE /\ sess' = [sess EXCEPT ![0] = set_connection(@, p, c)]
            /\ events' = [events EXCEPT ![0] =
                            notify_connected(sess[0].app_handle, @, c, sinkOk).log]
            /\ conn' = [conn EXCEPT ![c] = [@ EXCEPT !.pc = "serving", !.peer = p]]
    /\ UNCHANGED <<connLock, wire, recv, send, link>>

\* --------------------------------------------------------------- initiator
BootOutcomes == {"ErrParse", "ErrSecret", "ErrBind", "ErrConnect", "Ok"}

\* Mutant: every step is attempted whatever failed before.
connect_steps_eager(out) == <<"parse", "secret", "bind", "connect">>

\* The steps connect_session goes through before it has a connection
\* (session.rs:253-273), up to the one that fails: parse the ticket, load the
\* secret key, bind the endpoint, connect.
connect_steps(out) ==
    CASE out = "ErrParse" -> <<"parse">>
      [] out = "ErrSecret" -> <<"parse", "secret">>
      [] out = "ErrBind" -> <<"parse", "secret", "bind">>
      [] OTHER -> <<"parse", "secret", "bind", "connect">>

\* connect_session (session.rs:246-313) for connection c.  On a failed step
\* it returns that error; otherwise it creates the SessionState, stores the
\* connection under the (uncontended) lock, notifies the sink, spawns the
\* accept loop and returns the state.
connect_session(c, app, out, p, sinkOk) ==
    /\ conn[c].pc = "idle"
    /\ \A d \in Conns : d < c => conn[d].pc # "idle"
    /\ IF out # "Ok"
       THEN /\ conn' = [conn EXCEPT ![c] = [@ EXCEPT !.pc = "boot_failed",
                             !.role = "initiator", !.result = out,
                             !.steps = connect_steps(out)]]
            /\ UNCHANGED <<sess, events>>
       ELSE IF p = 0
       THEN /\ conn' = [conn EXCEPT ![c] = [@ EXCEPT !.pc = "panicked",
                             !.role = "initiator", !.result = "Panic",
                             !.live = TRUE, !.steps = connect_steps(out)]]
            /\ UNCHANGED <<sess, events>>
       ELSE /\ conn' = [conn EXCEPT ![c] = [@ EXCEPT !.pc = "serving",
                             !.role = "initiator", !.result = "Ok", !.peer = p,
                             !.live = TRUE, !.steps = connect_steps(out)]]
            /\ sess' = [sess EXCEPT ![c] = set_connection(NewSessionState(app), p, c)]
            /\ events' = [events EXCEPT ![c] =
                            notify_connected(app, @, c, sinkOk).log]
    /\ UNCHANGED <<stateLock, connLock, wire, recv, send, link>>

\* --------------------------------------------------------------- accept loop
\* Mutant: the loop accepts streams while accept still holds the state lock,
\* before the connection is stored.
loop_running_early(cn) == cn.pc \in {"locked", "serving"}

\* The task of connection cn is in its accept loop (session.rs:218-220,
\* 293-294), which comes after the block that stores the connection.
loop_running(cn) == cn.pc = "serving"

\* tokio::spawn of handle_uni_stream for an accepted stream (session.rs:223-228,
\* 296-302): the task starts at its first read; the loop goes on.
spawn_receiver(c, st) ==
    [InitRecv EXCEPT !.pc = "read_len", !.conn = c, !.sess = SessOf(c)]

\* Mutant: the spawned handle_uni_stream takes the state lock before its
\* first read.
accept_uni_ok_locking(c, content, pool) ==
    /\ loop_running(conn[c])
    /\ conn[c].live
    /\ link[c] = 0
    /\ \E st \in pool : ~wire[st].used
    /\ stateLock[SessOf(c)] = NoHolder
    /\ LET free == {x \in pool : ~wire[x].used}
           st == CHOOSE x \in free : \A y \in free : x <= y
       IN /\ wire' = [wire EXCEPT ![st] =
                        [used |-> TRUE, to |-> c, from |-> 0,
                         prefix |-> content.prefix, body |-> content.body,
                         st |-> content.st]]
          /\ recv' = [recv EXCEPT ![st] = spawn_receiver(c, st)]
          /\ stateLock' = [stateLock EXCEPT ![SessOf(c)] = <<"recv", st>>]
    /\ UNCHANGED <<sess, connLock, conn, send, events, link>>

\* conn.accept_uni() gives a stream the remote opened (session.rs:220-229,
\* 294-303); content is what the remote puts on it, pool the streams the
\* remote may open, taken in order.
accept_uni_ok(c, content, pool) ==
    /\ loop_running(conn[c])
    /\ conn[c].live
    /\ link[c] = 0
    /\ \E st \in pool : ~wire[st].used
    /\ LET free == {x \in pool : ~wire[x].used}
           st == CHOOSE x \in free : \A y \in free : x <= y
       IN /\ wire' = [wire EXCEPT ![st] =
                        [used |-> TRUE, to |-> c, from |-> 0,
                         prefix |-> content.prefix, body |-> content.body,
                         st |-> content.st]]
          /\ recv' = [recv EXCEPT ![st] = spawn_receiver(c, st)]
    /\ UNCHANGED <<sess, stateLock, connLock, conn, send, events, link>>

\* conn.accept_uni() gives a stream that a send_message at the other end of
\* the connection opened.
accept_uni_linked(c, st) ==
    /\ loop_running(conn[c])
    /\ conn[c].live
    /\ wire[st].used
    /\ wire[st].from # 0
    /\ wire[st].to = c
    /\ recv[st].pc = "none"
    /\ recv' = [recv EXCEPT ![st] = spawn_receiver(c, st)]
    /\ UNCHANGED <<sess, stateLock, connLock, conn, wire, send, events, link>>

\* The connection is closed by the peer or lost.  Nothing looks at the
\* connection before its loop is entered, so a loss before then is one at
\* the loop's start.
conn_drop(c) ==
    /\ conn[c].live
    /\ conn[c].pc = "serving"
    /\ conn' = [conn EXCEPT ![c].live = FALSE]
    /\ UNCHANGED <<sess, stateLock, connLock, wire, recv, send, events, link>>

\* conn.accept_uni() is an error: break (session.rs:230-233, 304-307); accept
\* then returns Ok(()) (session.rs:239-240), the spawned loop of
\* connect_session just ends.
accept_uni_err(c) ==
    /\ conn[c].pc = "serving"
    /\ ~conn[c].live
    /\ conn' = [conn EXCEPT ![c] = [@ EXCEPT !.pc = "closed", !.acceptErr = TRUE,
                     !.result = IF conn[c].role = "acceptor"
                                THEN accept_return ELSE @]]
    /\ UNCHANGED <<sess, stateLock, connLock, wire, recv, send, events, link>>

\* ---------------------------------------------------------- stream receiver
\* Mutant: the guard rejects the ceiling itself (>= for >).
LengthGuard_ge(len) == ~SzGt(MaxMessageLen, len)

\* if len > 10 * 1024 * 1024 (session.rs:138).
LengthGuard(len) == SzGt(len, MaxMessageLen)

\* handle_uni_stream from its start to the read of the body
\* (session.rs:130-144): read_exact of the 4-byte prefix answered `out`, the
\* length decoded and checked, the buffer allocated.
after_read_len(r, w, out) ==
    IF out = "err"
    THEN [r EXCEPT !.pc = "done", !.res = "ErrReadLen"]
    ELSE LET len == from_be_bytes(w.prefix)
         IN IF LengthGuard(len)
            THEN [r EXCEPT !.pc = "done", !.res = "ErrTooLarge", !.len = len]
            ELSE [r EXCEPT !.pc = "read_body", !.len = len, !.alloc = TRUE]

\* The bytes read_exact has consumed from the body when it answers `out`.
body_read(r, w, out) ==
    IF out = "ok" \/ SzLe(r.len, ByteLen(w.body)) THEN r.len ELSE ByteLen(w.body)

\* Mutant: a short read is not an error; what arrived is decoded.
after_read_body_partial(r, w, out) ==
    LET n == body_read(r, w, out)
        m == from_bytes(TakeBytes(w.body, n))
    IN IF m = DecodeError
       THEN [r EXCEPT !.pc = "done", !.res = "ErrDecode", !.nread = n]
       ELSE [r EXCEPT !.pc = "lock", !.msg = m, !.nread = n]

\* handle_uni_stream from the read of the body to the lock
\* (session.rs:145-154): read_exact of len bytes answered `out`, then
\* from_bytes of the buffer.
after_read_body(r, w, out) ==
    IF out = "err"
    THEN [r EXCEPT !.pc = "done", !.res = "ErrReadBody",
                   !.nread = body_read(r, w, out)]
    ELSE LET m == from_bytes(TakeBytes(w.body, r.len))
         IN IF m = DecodeError
            THEN [r EXCEPT !.pc = "done", !.res = "ErrDecode", !.nread = r.len]
            ELSE [r EXCEPT !.pc = "lock", !.msg = m, !.nread = r.len]

\* Mutant: the error of a receiver ends the loop, as if it were returned with
\* `?` from the loop's body.
on_stream_error_breaks(cn) == [cn EXCEPT !.pc = "closed"]

\* What the error of handle_uni_stream does to the connection's task
\* (session.rs:225-227, 298-301): the spawned task logs it and ends; the loop
\* is not told.
on_stream_error(cn) == cn

\* The connection's task after a step of a receiver that leaves it as r.
conn_after(r) ==
    IF r.pc = "done" /\ r.res # "Ok"
    THEN [conn EXCEPT ![r.conn] = on_stream_error(@)]
    ELSE conn

\* recv_stream.read_exact(&mut len_bytes) returns (session.rs:131-141).
recv_read_len(st) ==
    /\ recv[st].pc = "read_len"
    /\ \E out \in ReadOutcomes(Sz(Len(wire[st].prefix)), Sz(4), wire[st].st,
                               conn[recv[st].conn].live) :
         LET r == after_read_len(recv[st], wire[st], out)
         IN /\ recv' = [recv EXCEPT ![st] = r]
            /\ conn' = conn_after(r)
    /\ UNCHANGED <<sess, stateLock, connLock, wire, send, events, link>>

\* recv_stream.read_exact(&mut buffer) returns (session.rs:145-151).
recv_read_body(st) ==
    /\ recv[st].pc = "read_body"
    /\ \E out \in ReadOutcomes(ByteLen(wire[st].body), recv[st].len, wire[st].st,
                               conn[recv[st].conn].live) :
         LET r == after_read_body(recv[st], wire[st], out)
         IN /\ recv' = [recv EXCEPT ![st] = r]
            /\ conn' = conn_after(r)
    /\ UNCHANGED <<sess, stateLock, connLock, wire, send, events, link>>

\* Mutant: the receivers take the state lock in the order of their streams.
recv_lock_in_order(st) ==
    /\ recv[st].pc = "lock"
    /\ \A x \in Streams : x < st => recv[x].pc \in {"none", "done"}
    /\ stateLock[recv[st].sess] = NoHolder
    /\ stateLock' = [stateLock EXCEPT ![recv[st].sess] = <<"recv", st>>]
    /\ recv' = [recv EXCEPT ![st].pc = "emit"]
    /\ UNCHANGED <<sess, connLock, conn, wire, send, events, link>>

\* state.lock().await (session.rs:154).
recv_lock(st) ==
    /\ recv[st].pc = "lock"
    /\ stateLock[recv[st].sess] = NoHolder
    /\ stateLock' = [stateLock EXCEPT ![recv[st].sess] = <<"recv", st>>]
    /\ recv' = [recv EXCEPT ![st].pc = "emit"]
    /\ UNCHANGED <<sess, connLock, conn, wire, send, events, link>>

\* What handle_uni_stream returns after the dispatch (session.rs:155-193).
dispatch_result(e) == IF e.err THEN "ErrEmit" ELSE "Ok"

\* Mutant: the guard of the state lock outlives handle_uni_stream.
recv_emit_keeps_guard(st, sinkOk) ==
    /\ recv[st].pc = "emit"
    /\ LET s == recv[st].sess
           e == emit_event(sess[s].app_handle, events[s], "session-message",
                           payload_of(recv[st].msg), <<"stream", st>>, sinkOk)
       IN /\ events' = [events EXCEPT ![s] = e.log]
          /\ LET r == [recv[st] EXCEPT !.pc = "done", !.res = dispatch_result(e)]
             IN /\ recv' = [recv EXCEPT ![st] = r]
                /\ conn' = conn_after(r)
    /\ UNCHANGED <<sess, stateLock, connLock, wire, send, link>>

\* The match on the message under the lock and the return, which drops the
\* guard (session.rs:155-194).
recv_emit(st, sinkOk) ==
    /\ recv[st].pc = "emit"
    /\ LET s == recv[st].sess
           e == emit_event(sess[s].app_handle, events[s], "session-message",
                           payload_of(recv[st].msg), <<"stream", st>>, sinkOk)
       IN /\ events' = [events EXCEPT ![s] = e.log]
          /\ stateLock' = [stateLock EXCEPT ![s] = NoHolder]
          /\ LET r == [recv[st] EXCEPT !.pc = "done", !.res = dispatch_result(e)]
             IN /\ recv' = [recv EXCEPT ![st] = r]
                /\ conn' = conn_after(r)
    /\ UNCHANGED <<sess, connLock, wire, send, link>>

\* ------------------------------------------------------------- send_message
\* Mutant: the message is written before its length.
send_steps_body_first == <<"open_uni", "write_body", "write_len", "finish">>

\* The stream operations of send_message in program order
\* (session.rs:69-92).
send_steps == <<"open_uni", "write_len", "write_body", "finish">>

SendError(op) ==
    CASE op = "open_uni" -> "ErrOpen"
      [] op = "write_len" -> "ErrWriteLen"
      [] op = "write_body" -> "ErrWriteBody"
      [] op = "finish" -> "ErrFinish"

\* The effect of a successful stream operation on the stream in the
\* transport.
wire_after(w, op, k, cn, m) ==
    CASE op = "open_uni" ->
           [InitWire EXCEPT !.used = TRUE, !.to = link[cn], !.from = k]
      [] op = "write_len" ->
           [w EXCEPT !.prefix = to_be_bytes(len_as_u32(to_bytes(m)))]
      [] op = "write_body" -> [w EXCEPT !.body = to_bytes(m)]
      [] op = "finish" -> [w EXCEPT !.st = "fin"]

\* A caller takes the lock of SessionState s and calls send_message(m) on it
\* (session.rs:61; the state is only reachable through its Mutex,
\* session.rs:110, 120-122, 249).  Calls are numbered in the order made.
send_call(k, s, m) ==
    /\ send[k].pc = "idle"
    /\ \A j \in Sends : j < k => send[j].pc # "idle"
    /\ sess[s].exists
    /\ send' = [send EXCEPT ![k] = [@ EXCEPT !.pc = "lock_state", !.sess = s,
                                             !.msg = m]]
    /\ UNCHANGED <<sess, stateLock, connLock, conn, wire, recv, events, link>>

\* Whether send_message finds a connection (session.rs:62-65).
has_connection(state) == state.connection # 0

\* Mutant: without a connection the message is dropped and Ok returned.
no_connection_ok == "Ok"

\* What send_message returns without a connection:
\* .context("No active connection")? (session.rs:65).
no_connection_result == "NoActiveConnection"

\* The caller gets the state lock and send_message looks at self.connection
\* (session.rs:62-65): None is the error "No active connection", returned at
\* once, the caller's guard dropped.
send_lock_state(k) ==
    /\ send[k].pc = "lock_state"
    /\ stateLock[send[k].sess] = NoHolder
    /\ IF has_connection(sess[send[k].sess])
       THEN /\ stateLock' = [stateLock EXCEPT ![send[k].sess] = <<"send", k>>]
            /\ send' = [send EXCEPT ![k] = [@ EXCEPT !.pc = "lock_conn",
                               !.conn = sess[send[k].sess].connection]]
       ELSE /\ send' = [send EXCEPT ![k] = [@ EXCEPT !.pc = "done",
                               !.res = no_connection_result]]
            /\ UNCHANGED stateLock
    /\ UNCHANGED <<sess, connLock, conn, wire, recv, events, link>>

\* .lock().await on the connection's Mutex (session.rs:66-67).
send_lock_conn(k) ==
    /\ send[k].pc = "lock_conn"
    /\ connLock[send[k].conn] = NoHolder
    /\ connLock' = [connLock EXCEPT ![send[k].conn] = <<"send", k>>]
    /\ send' = [send EXCEPT ![k].pc = "io"]
    /\ UNCHANGED <<sess, stateLock, conn, wire, recv, events, link>>

\* The next stream operation of send_message returns (session.rs:69-96).  An
\* error is returned by `?` at once: the SendStream is dropped, which resets
\* the stream, and both guards are dropped.  After the last operation
\* send_message returns Ok(()).
send_io(k, ok) ==
    /\ send[k].pc = "io"
    /\ ok \in WriteOutcomes(conn[send[k].conn].live)
    /\ LET op == send_steps[Len(send[k].ops) + 1]
           st == StreamOfSend(k)
           ops == Append(send[k].ops, [op |-> op, ok |-> ok])
           last == Len(ops) = Len(send_steps)
       IN /\ send' = [send EXCEPT ![k] = [@ EXCEPT
                         !.ops = ops,
                         !.pc = IF ok /\ ~last THEN "io" ELSE "done",
                         !.res = IF ~ok THEN SendError(op)
                                 ELSE IF last THEN "Ok" ELSE ""]]
          /\ wire' = [wire EXCEPT ![st] =
                        IF ok THEN wire_after(@, op, k, send[k].conn, send[k].msg)
                        ELSE IF @.used THEN [@ EXCEPT !.st = "reset"] ELSE @]
          /\ IF ok /\ ~last
             THEN UNCHANGED <<stateLock, connLock>>
             ELSE /\ stateLock' = [stateLock EXCEPT ![send[k].sess] = NoHolder]
                  /\ connLock' = [connLock EXCEPT ![send[k].conn] = NoHolder]
    /\ UNCHANGED <<sess, conn, recv, events, link>>

\* ------------------------------------------------------------ specification
Next ==
    \/ \E c \in Conns : accept_lock(c)
    \/ \E c \in Conns : \E p \in NodeAnswers(c) :
         \E sinkOk \in SinkAnswers(sess[0].app_handle) :
           accept_populate(c, p, sinkOk)
    \/ \E c \in Conns, app \in BOOLEAN, out \in BootOutcomes :
         \E p \in NodeAnswers(c) : \E sinkOk \in SinkAnswers(app) :
           connect_session(c, app, out, p, sinkOk)
    \/ \E c \in Conns, content \in MainContents :
         accept_uni_ok(c, content, 1..WholeStreams)
    \/ \E c \in Conns : conn_drop(c)
    \/ \E c \in Conns : accept_uni_err(c)
    \/ \E st \in Streams : recv_read_len(st)
    \/ \E st \in Streams : recv_read_body(st)
    \/ \E st \in Streams : recv_lock(st)
    \/ \E st \in Streams :
         \E sinkOk \in SinkAnswers(sess[recv[st].sess].app_handle) :
           recv_emit(st, sinkOk)
    \/ \E k \in 1..WholeSends, s \in Sessions, m \in SendMessages :
         send_call(k, s, m)
    \/ \E k \in Sends : send_lock_state(k)
    \/ \E k \in Sends : send_lock_conn(k)
    \/ \E k \in Sends, ok \in BOOLEAN : send_io(k, ok)

Spec == Init /\ [][Next]_vars

\* The receivers of one connection, with every kind of inbound stream and no
\* send_message.
NextRecv ==
    \/ \E c \in 1..RecvConns : accept_lock(c)
    \/ \E c \in 1..RecvConns : \E p \in NodeAnswers(c) :
         \E sinkOk \in SinkAnswers(sess[0].app_handle) :
           accept_populate(c, p, sinkOk)
    \/ \E c \in 1..RecvConns, app \in BOOLEAN :
         \E sinkOk \in SinkAnswers(app) : connect_session(c, app, "Ok", c, sinkOk)
    \/ \E c \in Conns, content \in InboundContents :
         accept_uni_ok(c, content, EnvStreams)
    \/ \E c \in Conns : conn_drop(c)
    \/ \E c \in Conns : accept_uni_err(c)
    \/ \E st \in Streams : recv_read_len(st)
    \/ \E st \in Streams : recv_read_body(st)
    \/ \E st \in Streams : recv_lock(st)
    \/ \E st \in Streams :
         \E sinkOk \in SinkAnswers(sess[recv[st].sess].app_handle) :
           recv_emit(st, sinkOk)

SpecRecv == Init /\ [][NextRecv]_vars

\* Two peers over one connection: peer A calls connect_session (connection 1,
\* session 1), peer B's SessionHandler accepts the other end (connection 2,
\* session 0).  The connection stays up and what a send_message of A writes
\* on a stream is what the receiver at B reads.
PeerA == 1
PeerB == 2
InitE2E ==
    /\ InitCommon
    /\ link = [c \in Conns |-> IF c = PeerA THEN PeerB
                               ELSE IF c = PeerB THEN PeerA ELSE 0]

\* Messages of every variant, and Text messages whose encoding is exactly
\* 10 MiB long, one byte longer, and 4 GiB longer than a short one.
E2EMessages ==
    { Text(Hi),
      FileOffer(Str("a.txt", Sz(5)), 7, H1),
      FileAccept(H1),
      CallSignal(Str("offer", Sz(5)), Str("sdp", Sz(3))),
      Text(Str("big", SzSub(MaxMessageLen, TextOverhead))),
      Text(Str("bigger", SzAdd(SzSub(MaxMessageLen, TextOverhead), Sz(1)))),
      Text(Str("huge", [hi |-> Limb, lo |-> 2])) }

\* What the applications at the two ends decide to do: A connects and calls
\* send_message.
E2ECalls ==
    \/ \E app \in BOOLEAN : \E sinkOk \in SinkAnswers(app) :
         connect_session(PeerA, app, "Ok", PeerA, sinkOk)
    \/ \E k \in 1..WholeSends, m \in E2EMessages : send_call(k, PeerA, m)

\* The steps of the tasks once started: B's accept, the accept loops, the
\* receivers, and the rest of each send_message.
E2ESteps ==
    \/ accept_lock(PeerB)
    \/ \E sinkOk \in SinkAnswers(sess[0].app_handle) :
         accept_populate(PeerB, PeerB, sinkOk)
    \/ \E c \in {PeerA, PeerB}, st \in Streams : accept_uni_linked(c, st)
    \/ \E st \in Streams : recv_read_len(st)
    \/ \E st \in Streams : recv_read_body(st)
    \/ \E st \in Streams : recv_lock(st)
    \/ \E st \in Streams :
         \E sinkOk \in SinkAnswers(sess[recv[st].sess].app_handle) :
           recv_emit(st, sinkOk)
    \/ \E k \in Sends : send_lock_state(k)
    \/ \E k \in Sends : send_lock_conn(k)
    \/ \E k \in Sends, ok \in BOOLEAN : send_io(k, ok)

NextE2E == E2ECalls \/ E2ESteps

\* The run does not stop while a started task can take a step: the runtime
\* schedules every spawned task, the transport answers every read, write and
\* accept on a live connection, and a lock that is free is handed to one of
\* its waiters.  Every task takes finitely many steps, so this is all the
\* scheduling the tasks need; the applications are not required to call.
FairE2E == WF_vars(E2ESteps)

SpecE2E == InitE2E /\ [][NextE2E]_vars /\ FairE2E

\* The two peers again, A sending up to MaxSends messages, one of each
\* variant to choose from.
PairMessages ==
    { Text(Hi),
      FileOffer(Str("a.txt", Sz(5)), 7, H1),
      FileAccept(H1),
      CallSignal(Str("offer", Sz(5)), Str("sdp", Sz(3))) }

PairCalls ==
    \/ \E app \in BOOLEAN : \E sinkOk \in SinkAnswers(app) :
         connect_session(PeerA, app, "Ok", PeerA, sinkOk)
    \/ \E k \in Sends, m \in PairMessages : send_call(k, PeerA, m)

NextPair == PairCalls \/ E2ESteps

SpecPair == InitE2E /\ [][NextPair]_vars

\* The codec alone: to_bytes then from_bytes on messages of every variant,
\* with empty, short, 10 MiB and 4 GiB strings and sizes from 0 to the
\* largest integer the checker has.
CodecStrings ==
    { Str("", Sz(0)), Hi, Str("big", MaxMessageLen),
      Str("huge", [hi |-> Limb, lo |-> 0]) }
CodecSizes == {0, 7, 2147483647}
CodecMessages ==
    {Text(s) : s \in CodecStrings}
    \cup {FileOffer(s, n, h) : s \in CodecStrings, n \in CodecSizes,
                               h \in CodecStrings}
    \cup {FileAccept(h) : h \in CodecStrings}
    \cup {CallSignal(s, d) : s \in CodecStrings, d \in CodecStrings}

InitCodec ==
    /\ sess = [s \in Sessions |-> IF s = 0 THEN NewSessionState(FALSE) ELSE NoSession]
    /\ stateLock = [s \in Sessions |-> NoHolder]
    /\ connLock = [c \in Conns |-> NoHolder]
    /\ conn = [c \in Conns |-> InitConn]
    /\ wire = [st \in Streams |-> InitWire]
    /\ recv = [st \in Streams |-> InitRecv]
    /\ \E ms \in [1..WholeSends -> CodecMessages] :
         send = [k \in Sends |-> IF k <= WholeSends
                                 THEN [InitSend EXCEPT !.msg = ms[k]]
                                 ELSE InitSend]
    /\ events = [s \in Sessions |-> <<>>]
    /\ link = [c \in Conns |-> 0]

\* message.to_bytes() (session.rs:34-36, 74): the bytes of the k-th message.
call_to_bytes(k) ==
    /\ send[k].pc = "idle"
    /\ send' = [send EXCEPT ![k].pc = "encoded"]
    /\ wire' = [wire EXCEPT ![StreamOfSend(k)] =
                  [InitWire EXCEPT !.used = TRUE, !.body = to_bytes(send[k].msg)]]
    /\ UNCHANGED <<sess, stateLock, connLock, conn, recv, events, link>>

\* SessionMessage::from_bytes(&buffer) (session.rs:39-41, 150) on those bytes.
call_from_bytes(k) ==
    /\ send[k].pc = "encoded"
    /\ recv[StreamOfSend(k)].pc = "none"
    /\ LET m == from_bytes(wire[StreamOfSend(k)].body)
       IN recv' = [recv EXCEPT ![StreamOfSend(k)] =
                     [InitRecv EXCEPT !.pc = "done", !.msg = m,
                          !.res = IF m = DecodeError THEN "ErrDecode" ELSE "Ok"]]
    /\ UNCHANGED <<sess, stateLock, connLock, conn, wire, send, events, link>>

NextCodec ==
    \/ \E k \in 1..WholeSends : call_to_bytes(k)
    \/ \E k \in 1..WholeSends : call_from_bytes(k)

SpecCodec == InitCodec /\ [][NextCodec]_vars

\* One handler and one accepted connection that stays up, with inbound
\* streams that carry a message, stop after the prefix or stay silent, and
\* send_message calls on the handler's session.
SoloContents ==
    { Framed(Text(Hi)),
      [prefix |-> to_be_bytes(len_as_u32(to_bytes(Text(Hi)))), body |-> <<>>,
       st |-> "open"] } \cup StalledContents

\* What the application and the remote peer decide to do.
SoloCalls ==
    \/ \E c \in 1..RecvConns, content \in SoloContents :
         accept_uni_ok(c, content, EnvStreams)
    \/ \E k \in Sends, m \in SendMessages : send_call(k, 0, m)

\* The steps of the tasks once started.
SoloSteps ==
    \/ \E c \in 1..RecvConns : accept_lock(c)
    \/ \E c \in 1..RecvConns : \E sinkOk \in SinkAnswers(sess[0].app_handle) :
         accept_populate(c, c, sinkOk)
    \/ \E st \in Streams : recv_read_len(st)
    \/ \E st \in Streams : recv_read_body(st)
    \/ \E st \in Streams : recv_lock(st)
    \/ \E st \in Streams :
         \E sinkOk \in SinkAnswers(sess[recv[st].sess].app_handle) :
           recv_emit(st, sinkOk)
    \/ \E k \in Sends : send_lock_state(k)
    \/ \E k \in Sends : send_lock_conn(k)
    \/ \E k \in Sends, ok \in BOOLEAN : send_io(k, ok)

NextSolo == SoloCalls \/ SoloSteps

\* The run does not stop while a started task can take a step; see FairE2E.
FairSolo == WF_vars(SoloSteps)

SpecSolo == Init /\ [][NextSolo]_vars /\ FairSolo

\* ================================================================== claims
\* The session-message events the sink of stream st's session was handed for
\* stream st.
MessageEventsOf(st) ==
    LET log == events[recv[st].sess]
    IN {i \in 1..Len(log) : log[i].name = "session-message"
                            /\ log[i].src = <<"stream", st>>}

Started(st) == recv[st].pc # "none"
Failed(st) == recv[st].pc = "done" /\ recv[st].res # "Ok"
\* What the remote declared as the length of stream st.
Declared(st) == from_be_bytes(wire[st].prefix)
\* Stream st carries one whole encoded message, framed with its length.
WellFormed(st) ==
    /\ wire[st].used
    /\ wire[st].st = "fin"
    /\ Len(wire[st].prefix) = 4
    /\ Declared(st) = ByteLen(wire[st].body)
    /\ from_bytes(wire[st].body) # DecodeError

\* ----------------------------------------------------------------------- C1
\* C1 (isolation).  A step in which a receiver fails (declared length over
\* the ceiling, short read, decode failure) changes nothing but that
\* receiver: the connection's loop stays as it is, no lock is taken or kept,
\* no event is emitted and every other receiver is untouched.  And whatever
\* the other streams of the connection did, a well-formed stream of 10 MiB or
\* less that was accepted fails only if the connection itself was lost;
\* otherwise it completes and, with a sink, its message is emitted once.
C1_FailureIsLocal ==
    \A st \in Streams :
        (~Failed(st) /\ Failed(st)') =>
            /\ conn' = conn
            /\ stateLock' = stateLock
            /\ events' = events
            /\ sess' = sess
            /\ \A o \in Streams \ {st} : recv'[o] = recv[o]

C1_WellFormedServed ==
    \A st \in Streams :
        /\ (WellFormed(st) /\ recv[st].pc = "done" /\ recv[st].res # "Ok")
              => ~conn[recv[st].conn].live
        /\ (WellFormed(st) /\ recv[st].pc = "done" /\ recv[st].res = "Ok"
              /\ sess[recv[st].sess].app_handle)
              => \E i \in MessageEventsOf(st) :
                     /\ MessageEventsOf(st) = {i}
                     /\ events[recv[st].sess][i].payload
                          = payload_of(from_bytes(wire[st].body))
        \* a receiver holds no lock while it reads
        /\ recv[st].pc \in {"read_len", "read_body", "lock"}
              => stateLock[recv[st].sess] # <<"recv", st>>

C1_Isolation == [][C1_FailureIsLocal]_vars /\ []C1_WellFormedServed

\* A malformed stream failed, and a well-formed stream accepted after it on
\* the same connection was emitted.
C1_Witness ==
    \E a, b \in Streams :
        /\ a < b
        /\ Failed(a) /\ recv[a].res \in {"ErrTooLarge", "ErrReadBody", "ErrDecode"}
        /\ recv[a].conn = recv[b].conn
        /\ conn[recv[a].conn].live
        /\ WellFormed(b) /\ recv[b].pc = "done" /\ recv[b].res = "Ok"
        /\ MessageEventsOf(b) # {}

\* ----------------------------------------------------------------------- C2
\* The ceiling as the specification states it, in bytes.
CeilingBytes == 10485760

\* The receiver of st has read the 4-byte prefix.
PrefixRead(st) ==
    recv[st].pc \in {"read_body", "lock", "emit", "done"}
    /\ recv[st].res # "ErrReadLen"

\* C2 (length guard).  Once the prefix is read: a declared length greater
\* than 10,485,760 has ended the receiver with the too-large failure, no body
\* byte read, no buffer allocated, no event emitted; a declared length of
\* 10,485,760 or less is not rejected by the guard, and the buffer for the
\* body read is allocated.
C2_LengthGuard ==
    \A st \in Streams :
        PrefixRead(st) =>
            IF SzGt(Declared(st), Sz(CeilingBytes))
            THEN /\ recv[st].pc = "done"
                 /\ recv[st].res = "ErrTooLarge"
                 /\ recv[st].nread = Sz(0)
                 /\ ~recv[st].alloc
                 /\ MessageEventsOf(st) = {}
            ELSE /\ recv[st].alloc
                 /\ recv[st].res # "ErrTooLarge"
                 /\ recv[st].len = Declared(st)

\* One stream declared 10,485,761 and was rejected; another declared exactly
\* 10,485,760 and was read and dispatched.
C2_Witness ==
    \E a, b \in Streams :
        /\ PrefixRead(a) /\ Declared(a) = Sz(CeilingBytes + 1)
        /\ recv[a].res = "ErrTooLarge"
        /\ PrefixRead(b) /\ Declared(b) = Sz(CeilingBytes)
        /\ recv[b].pc = "done" /\ recv[b].res = "Ok"
        /\ recv[b].nread = Sz(CeilingBytes)

\* ----------------------------------------------------------------------- C3
\* The receiver of st read the prefix and the whole body and decoded it.
Decoded(st) == recv[st].msg # NoMsg

\* C3 as claimed: at most one event per stream, and a finished receiver has
\* emitted exactly one if and only if prefix and body arrived and decoded.
C3_AsClaimed ==
    \A st \in Streams :
        /\ Cardinality(MessageEventsOf(st)) <= 1
        /\ recv[st].pc = "done" =>
               (Cardinality(MessageEventsOf(st)) = 1 <=> Decoded(st))

\* C3, amended (one event per decoded stream where there is a sink, none
\* otherwise).  Every stream has at most one session-message event; a
\* finished receiver has emitted exactly one if and only if the session has a
\* sink and the full prefix and all declared body bytes arrived and decoded.
\* What is decoded is the whole declared body, never a part of it, and the
\* payload emitted is that message's.
C3_OneEventPerDecodedStream ==
    \A st \in Streams :
        /\ Cardinality(MessageEventsOf(st)) <= 1
        /\ MessageEventsOf(st) # {} => Decoded(st)
        /\ Decoded(st) =>
               /\ Len(wire[st].prefix) = 4
               /\ SzLe(Declared(st), ByteLen(wire[st].body))
               /\ recv[st].nread = Declared(st)
               /\ recv[st].msg = from_bytes(TakeBytes(wire[st].body, Declared(st)))
        /\ recv[st].pc = "done" =>
               (Cardinality(MessageEventsOf(st)) = 1
                  <=> (Decoded(st) /\ sess[recv[st].sess].app_handle))
        /\ \A i \in MessageEventsOf(st) :
               events[recv[st].sess][i].payload = payload_of(recv[st].msg)

\* With a sink: one stream was decoded and emitted once, another closed
\* before its declared bytes arrived and emitted nothing.
C3_Witness ==
    \E a, b \in Streams :
        /\ recv[a].pc = "done" /\ Decoded(a)
        /\ Cardinality(MessageEventsOf(a)) = 1
        /\ recv[b].pc = "done" /\ recv[b].res = "ErrReadBody"
        /\ conn[recv[b].conn].live
        /\ MessageEventsOf(b) = {}

\* ----------------------------------------------------------------------- C4
\* C4 (single assignment of the session fields).  In every step, a peer
\* identity or connection handle that is set is neither cleared nor replaced
\* by another value.
C4_SingleAssignment ==
    [][\A s \in Sessions :
         /\ sess[s].peer_id # 0 => sess'[s].peer_id = sess[s].peer_id
         /\ sess[s].connection # 0 => sess'[s].connection = sess[s].connection]_vars

\* ----------------------------------------------------------------------- C5
\* A step in which send_message k looks at self.connection.
SendChecks(k) == send[k].pc = "lock_state" /\ send'[k].pc # "lock_state"

\* C5 (send on an unpopulated session).  When send_message looks at a
\* session whose connection handle is not populated, it returns the
\* NoActiveConnection failure in that step, with no stream opened, no byte
\* written, no lock kept and the session state as it was; and it returns
\* that failure in no other case.
C5_Step ==
    \A k \in Sends :
        SendChecks(k) =>
            IF sess[send[k].sess].connection = 0
            THEN /\ send'[k].pc = "done"
                 /\ send'[k].res = "NoActiveConnection"
                 /\ send'[k].ops = <<>>
                 /\ sess' = sess
                 /\ wire' = wire
                 /\ stateLock' = stateLock
                 /\ connLock' = connLock
                 /\ events' = events
            ELSE send'[k].res # "NoActiveConnection"

C5_State ==
    \A k \in Sends :
        send[k].res = "NoActiveConnection" =>
            /\ send[k].pc = "done"
            /\ send[k].ops = <<>>
            /\ ~wire[StreamOfSend(k)].used

C5_NoActiveConnection == [][C5_Step]_vars /\ []C5_State

\* A send on the handler's session before any connection was accepted has
\* failed.
C5_Witness ==
    \E k \in Sends :
        /\ send[k].pc = "done"
        /\ send[k].res = "NoActiveConnection"
        /\ sess[send[k].sess].connection = 0

\* ----------------------------------------------------------------------- C6
\* The names of the stream operations send k has performed, in order.
OpNames(k) == [i \in 1..Len(send[k].ops) |-> send[k].ops[i].op]

\* C6 (send step order).  The stream operations of a send_message are, in
\* this order and each at most once, open_uni, write of the 4-byte prefix,
\* write of the encoded bytes, finish; all but the last performed succeeded;
\* the call has returned Ok exactly when all four succeeded, and a failed
\* operation is the last one, returned at once as that step's error.  The
\* stream holds the prefix only after open, the body only after the prefix,
\* and is finished only after the body; a step of the send touches no other
\* stream.
C6_State ==
    \A k \in Sends :
        LET ops == send[k].ops
            w == wire[StreamOfSend(k)]
        IN /\ Len(ops) <= 4
           /\ OpNames(k) = SubSeq(<<"open_uni", "write_len", "write_body", "finish">>,
                                  1, Len(ops))
           /\ \A i \in 1..(Len(ops) - 1) : ops[i].ok
           /\ send[k].res = "Ok" <=> (Len(ops) = 4 /\ ops[4].ok)
           /\ (ops # <<>> /\ ~ops[Len(ops)].ok) =>
                  /\ send[k].pc = "done"
                  /\ send[k].res = CASE Len(ops) = 1 -> "ErrOpen"
                                     [] Len(ops) = 2 -> "ErrWriteLen"
                                     [] Len(ops) = 3 -> "ErrWriteBody"
                                     [] OTHER -> "ErrFinish"
           /\ w.used <=> (ops # <<>> /\ ops[1].ok)
           /\ w.prefix # <<>> <=> (Len(ops) >= 2 /\ ops[2].ok)
           /\ w.body # <<>> <=> (Len(ops) >= 3 /\ ops[3].ok)
           /\ w.st = "fin" <=> (Len(ops) = 4 /\ ops[4].ok)
           /\ w.prefix # <<>> => w.prefix = to_be_bytes(len_as_u32(to_bytes(send[k].msg)))
           /\ w.body # <<>> => w.body = to_bytes(send[k].msg)

C6_Step ==
    \A k \in Sends :
        send'[k].ops # send[k].ops =>
            /\ Len(send'[k].ops) = Len(send[k].ops) + 1
            /\ \A st \in Streams \ {StreamOfSend(k)} : wire'[st] = wire[st]

C6_SendStepOrder == [][C6_Step]_vars /\ []C6_State

\* One send_message has returned Ok, its stream framed and finished.
C6_Witness ==
    \E k \in Sends :
        /\ send[k].res = "Ok"
        /\ Len(send[k].ops) = 4
        /\ wire[StreamOfSend(k)].st = "fin"

\* ----------------------------------------------------------------------- C8
\* The accept loop of connection c has been entered.
LoopStarted(c) == conn[c].pc \in {"serving", "closed"}

\* C8 (accept-loop exit).  A started loop leaves its serving state only in
\* a step in which accept_uni fails (the connection is gone), and then it is
\* closed for good, no receiver being touched; accept_uni failing always
\* closes it; a step in which a receiver fails leaves every loop as it is;
\* and on the acceptor side the accept invocation has then returned Ok.
C8_Step ==
    /\ \A c \in Conns :
         (conn[c].pc = "serving" /\ conn'[c].pc # "serving") =>
             /\ ~conn[c].live
             /\ conn'[c].pc = "closed"
             /\ conn'[c].acceptErr /\ ~conn[c].acceptErr
             /\ recv' = recv
    /\ \A c \in Conns : conn[c].pc = "closed" => conn'[c] = conn[c]
    /\ \A st \in Streams :
         (~Failed(st) /\ Failed(st)') =>
             \A c \in Conns : conn'[c].pc = conn[c].pc

C8_State ==
    \A c \in Conns :
        /\ conn[c].acceptErr <=> conn[c].pc = "closed"
        /\ (conn[c].pc = "closed" /\ conn[c].role = "acceptor") =>
               conn[c].result = "Ok"
        /\ (conn[c].pc = "serving" /\ conn[c].role = "acceptor") =>
               conn[c].result = ""

C8_AcceptLoopExit == [][C8_Step]_vars /\ []C8_State

\* An accepted connection whose loop survived a failed receiver and then
\* ended on a failed accept_uni, accept returning Ok.
C8_Witness ==
    \E c \in Conns, st \in Streams :
        /\ conn[c].role = "acceptor"
        /\ conn[c].pc = "closed"
        /\ conn[c].result = "Ok"
        /\ recv[st].conn = c
        /\ recv[st].res = "ErrTooLarge"

\* ----------------------------------------------------------------------- C9
\* The session-connected events the sink of session s was handed.
ConnectedEvents(s) ==
    {i \in 1..Len(events[s]) : events[s][i].name = "session-connected"}

\* The connections successfully accepted or initiated on session s.
Established(s) == {c \in Conns : LoopStarted(c) /\ SessOf(c) = s}

\* C9 (session-connected count).  The sink of a session has been handed
\* exactly one session-connected event for each connection successfully
\* accepted or initiated on it, and none if the session has no sink; a step
\* that neither accepts nor initiates a connection (a send, a dispatch, a
\* loop exit, a connection loss) emits none.
C9_State ==
    \A s \in Sessions :
        /\ Cardinality(ConnectedEvents(s))
             = IF sess[s].app_handle THEN Cardinality(Established(s)) ELSE 0
        /\ sess[s].app_handle =>
             \A c \in Established(s) :
                 Cardinality({i \in ConnectedEvents(s) :
                                events[s][i].src = <<"conn", c>>}) = 1

C9_Step ==
    \A s \in Sessions :
        Len(events'[s]) > Len(events[s])
        /\ events'[s][Len(events'[s])].name = "session-connected"
        => \E c \in Conns : ~LoopStarted(c) /\ LoopStarted(c)'

C9_SessionConnectedCount == [][C9_Step]_vars /\ []C9_State

\* Two connections accepted by a handler with a sink, the first one's loop
\* ended: two session-connected events, one each.
C9_Witness ==
    /\ sess[0].app_handle
    /\ Cardinality(Established(0)) = 2
    /\ Cardinality(ConnectedEvents(0)) = 2
    /\ \E c \in Established(0) : conn[c].pc = "closed"

\* ---------------------------------------------------------------------- C10
\* C10 (best-effort emit).  A session without a sink has no event at all.
\* An error of the sink is swallowed: a receiver that decoded its message
\* ends with Ok whatever the sink answered; a connection whose
\* session-connected was refused by the sink is populated in the session and
\* its loop entered; a loop ends only on a failed accept_uni; and no result
\* returned by accept, connect_session or handle_uni_stream is the sink's
\* error.
C10_State ==
    /\ \A s \in Sessions : ~sess[s].app_handle => events[s] = <<>>
    /\ \A st \in Streams :
         /\ (recv[st].pc = "done" /\ Decoded(st)) => recv[st].res = "Ok"
         /\ recv[st].res \in {"", "Ok", "ErrReadLen", "ErrTooLarge",
                              "ErrReadBody", "ErrDecode"}
    /\ \A s \in Sessions : \A i \in ConnectedEvents(s) :
         LET c == events[s][i].src[2]
         IN /\ LoopStarted(c)
            /\ sess[s].peer_id # 0 /\ sess[s].connection # 0
            /\ conn[c].pc = "closed" => conn[c].acceptErr
    /\ \A c \in Conns :
         conn[c].result \in {"", "Ok", "Panic", "ErrParse", "ErrSecret",
                             "ErrBind", "ErrConnect"}

C10_Step ==
    \A s \in Sessions :
        Len(events'[s]) > Len(events[s]) =>
            \A c \in Conns : conn'[c].pc # "closed" \/ conn[c].pc = "closed"

C10_BestEffortEmit == [][C10_Step]_vars /\ []C10_State

\* The sink refused both the session-connected of a connection and the
\* session-message of one of its streams; the stream's receiver returned Ok
\* and the loop is still serving.
C10_Witness ==
    \E st \in Streams :
        LET s == recv[st].sess
        IN /\ recv[st].pc = "done" /\ recv[st].res = "Ok"
           /\ \E i \in MessageEventsOf(st) : ~events[s][i].ok
           /\ \E i \in ConnectedEvents(s) :
                /\ ~events[s][i].ok
                /\ events[s][i].src = <<"conn", recv[st].conn>>
           /\ conn[recv[st].conn].pc = "serving"

\* ----------------------------------------------------------------------- C7
\* The connection at the other end of the one send k went out on; 0 before
\* the send has a connection.
PeerConn(k) == IF send[k].conn \in Conns THEN link[send[k].conn] ELSE 0

\* The session at the other end of the connection send k went out on.
PeerSession(k) == SessOf(PeerConn(k))

\* The payload the claim gives for each variant.
C7_Payload(m) ==
    CASE m.variant = "Text" -> [type |-> "text", content |-> m.content]
      [] m.variant = "FileOffer" ->
           [type |-> "file_offer", name |-> m.name, size |-> m.size,
            hash |-> m.hash]
      [] m.variant = "FileAccept" -> [type |-> "file_accept", hash |-> m.hash]
      [] m.variant = "CallSignal" ->
           [type |-> "call_signal", signal_type |-> m.signal_type,
            data |-> m.data]

\* The session-message events for the stream of send k at the peer's sink.
C7_Events(k) ==
    IF PeerConn(k) = 0 THEN {}
    ELSE LET log == events[PeerSession(k)]
         IN {i \in 1..Len(log) : log[i].name = "session-message"
                                 /\ log[i].src = <<"stream", StreamOfSend(k)>>}

\* The message of send k was emitted exactly once at the peer's sink, with
\* the payload of its variant.
C7_Delivered(k) ==
    \E i \in C7_Events(k) :
        /\ C7_Events(k) = {i}
        /\ events[PeerSession(k)][i].payload = C7_Payload(send[k].msg)

\* send k returned Ok and the peer has a sink.
C7_Sent(k) ==
    /\ send[k].res = "Ok"
    /\ PeerConn(k) # 0
    /\ sess[PeerSession(k)].app_handle

\* The encoding of the message of send k is at most 10,485,760 bytes long.
C7_Fits(k) == SzLe(ByteLen(to_bytes(send[k].msg)), Sz(CeilingBytes))

C7_State ==
    \A k \in Sends :
        /\ Cardinality(C7_Events(k)) <= 1
        /\ \A i \in C7_Events(k) :
             events[PeerSession(k)][i].payload = C7_Payload(send[k].msg)
        /\ (C7_Sent(k) /\ C7_Fits(k) /\ recv[StreamOfSend(k)].pc = "done")
             => C7_Delivered(k)

C11_Order == <<"parse", "bind", "connect">>
C11_Kinds == {"ErrParse", "ErrBind", "ErrConnect"}
C11_StepOf(kind) ==
    CASE kind = "ErrParse" -> "parse"
      [] kind = "ErrBind" -> "bind"
      [] kind = "ErrConnect" -> "connect"

\* Those of the three steps that connect_session attempted for connection c,
\* in the order attempted.
C11_Tried(c) ==
    SelectSeq(conn[c].steps, LAMBDA x : x \in {"parse", "bind", "connect"})

C11_State ==
    \A c \in Conns :
        conn[c].result \in C11_Kinds =>
            /\ C11_Tried(c) = SubSeq(C11_Order, 1, Len(C11_Tried(c)))
            /\ C11_Tried(c)[Len(C11_Tried(c))] = C11_StepOf(conn[c].result)
            /\ conn[c].pc = "boot_failed"
            /\ ~conn[c].live
            /\ ~sess[c].exists
            /\ events[c] = <<>>
            /\ \A st \in Streams : recv[st].pc # "none" => recv[st].conn # c
            /\ \A k \in Sends : send[k].pc # "idle" => send[k].sess # c

C11_Step ==
    \A c \in Conns :
        conn[c].pc = "boot_failed" =>
            /\ conn'[c] = conn[c]
            /\ sess'[c] = sess[c]
            /\ events'[c] = events[c]

\* C11 (bootstrap failure).  The steps of connect_session are attempted in
\* the order parse, bind, connect; when it returns the failure kind of one
\* of the three, that step is the last one attempted (a failed parse is
\* followed by no bind and no connect), there is no SessionState, the sink
\* has been handed nothing, no accept loop serves the connection and no
\* receiver belongs to it; and all of that stays so.
C11_BootstrapFailure == [][C11_Step]_vars /\ []C11_State

\* One connect_session failed at the parse, having attempted nothing else,
\* and another at the connect, after the parse and the bind.
C11_Witness ==
    \E c, d \in Conns :
        /\ conn[c].result = "ErrParse" /\ conn[c].steps = <<"parse">>
        /\ conn[d].result = "ErrConnect"
        /\ C11_Tried(d) = C11_Order

\* ---------------------------------------------------------------------- C12
\* connect_session for connection c returned Ok(state).
C12_Returned(c) == conn[c].role = "initiator" /\ conn[c].result = "Ok"

\* The returned SessionState has both fields set.
C12_Populated(c) ==
    /\ sess[c].exists
    /\ sess[c].peer_id # 0
    /\ sess[c].connection = c

\* The receivers spawned by the loop of connection c.
C12_Receivers(c) == {st \in Streams : recv[st].pc # "none" /\ recv[st].conn = c}

\* C12 as claimed: whenever connect_session has returned success, the state
\* is populated and session-connected has been emitted.
C12_AsClaimed ==
    \A c \in Conns :
        C12_Returned(c) => C12_Populated(c) /\ ConnectedEvents(c) # {}

C12_State ==
    \A c \in Conns :
        C12_Returned(c) =>
            /\ C12_Populated(c)
            /\ sess[c].app_handle =>
                 /\ events[c] # <<>>
                 /\ events[c][1].name = "session-connected"
                 /\ events[c][1].src = <<"conn", c>>
            /\ \A k \in Sends :
                 send[k].sess = c => send[k].res # "NoActiveConnection"

C12_Step ==
    \A c \in Conns :
        (~C12_Returned(c) /\ C12_Returned(c)') =>
            /\ conn'[c].pc = "serving"
            /\ C12_Receivers(c)' = {}

\* C12, amended (initiator hand-off).  Whenever connect_session returns
\* success, the returned SessionState has both peer identity and connection
\* handle (no send on it ever fails with NoActiveConnection); if a sink is
\* configured, session-connected is the first event the sink was handed; and
\* at the return the accept loop is running, not ended, and has accepted no
\* stream yet.
C12_InitiatorHandOff == [][C12_Step]_vars /\ []C12_State

\* connect_session returned a state with a sink, a send on it succeeded, and
\* the loop is still running without having accepted a stream.
C12_Witness ==
    \E c \in Conns :
        /\ C12_Returned(c)
        /\ sess[c].app_handle
        /\ ConnectedEvents(c) = {1}
        /\ conn[c].pc = "serving"
        /\ C12_Receivers(c) = {}
        /\ \E k \in Sends : send[k].sess = c /\ send[k].res = "Ok"

\* ---------------------------------------------------------------------- C13
\* The position in the peer's event log of the session-message of send k, or
\* 0 if there is none.
C13_At(k) ==
    IF C7_Events(k) = {} THEN 0 ELSE CHOOSE i \in C7_Events(k) : TRUE

\* The receivers of both sends have decoded their message and none has
\* asked for the state lock yet, which is free.
C13_Race ==
    /\ \A k \in Sends : recv[StreamOfSend(k)].pc = "lock"
    /\ \A k \in Sends : stateLock[recv[StreamOfSend(k)].sess] = NoHolder

\* C13 (ordering independence).  Whatever the order, the event of a sent
\* message carries the payload of that message alone; and when the
\* receivers of two messages sent on the same connection are both ready to
\* dispatch, either of them can be the next to dispatch.
C13_State ==
    /\ \A k \in Sends :
         \A i \in C7_Events(k) :
             events[PeerSession(k)][i].payload = C7_Payload(send[k].msg)
    /\ C13_Race => \A k \in Sends : ENABLED recv_lock(StreamOfSend(k))

C13_OrderingIndependence == []C13_State

\* Two different messages, the first send returned before the second began
\* to write, and the peer's sink was handed the second message first.
C13_Witness ==
    /\ send[1].res = "Ok" /\ send[2].res = "Ok"
    /\ send[1].msg # send[2].msg
    /\ send[2].ops[1].ok
    /\ C13_At(2) # 0
    /\ C13_At(2) < C13_At(1)

\* ---------------------------------------------------------------------- C14
\* C14 (codec round-trip).  For every message of the four variants, to_bytes
\* gives a byte string, and from_bytes of that byte string succeeds and
\* gives the message back, variant and every field.
C14_RoundTrip ==
    \A k \in 1..WholeSends :
        /\ send[k].msg.variant \in {"Text", "FileOffer", "FileAccept", "CallSignal"}
        /\ send[k].pc = "encoded" =>
             /\ wire[StreamOfSend(k)].body # <<>>
             /\ SzGt(ByteLen(wire[StreamOfSend(k)].body), Sz(0))
        /\ recv[StreamOfSend(k)].pc = "done" =>
             /\ recv[StreamOfSend(k)].res = "Ok"
             /\ recv[StreamOfSend(k)].msg = send[k].msg

\* A FileOffer with an empty name, the largest size and a 4 GiB hash,
\* encoded and decoded.
C14_Witness ==
    /\ recv[StreamOfSend(1)].pc = "done"
    /\ send[1].msg = FileOffer(Str("", Sz(0)), 2147483647,
                               Str("huge", [hi |-> Limb, lo |-> 0]))
    /\ recv[StreamOfSend(1)].msg.size = 2147483647

\* ---------------------------------------------------------------------- C15
\* Send j has opened its stream and has not returned.
C15_Writing(j) == send[j].pc = "io" /\ send[j].ops # <<>>

\* Send k, called on the same session as j, has not got to its open_uni yet.
C15_Waiting(k, j) ==
    /\ send[k].pc \in {"lock_state", "lock_conn"}
    /\ send[k].sess = send[j].sess

\* C15 (concurrent sends), as claimed: a send that has opened its stream and
\* is still writing does not keep another send on the same session from
\* going on towards opening its own stream.
C15_ConcurrentSends ==
    \A j, k \in Sends :
        (j # k /\ C15_Writing(j) /\ C15_Waiting(k, j)) =>
            (ENABLED send_lock_state(k) \/ ENABLED send_lock_conn(k))

\* What the code does instead: two sends on one connection are never both
\* between their open_uni and their return.
C15_Exclusive ==
    \A j, k \in Sends :
        (j # k /\ send[j].pc = "io" /\ send[k].pc = "io") =>
            send[j].conn # send[k].conn

\* ---------------------------------------------------------------------- C16
\* Receiver st has decoded its message and is at state.lock().await while
\* another receiver is in its dispatch or a send is in progress on the same
\* session.
C16_Contended(st) ==
    /\ recv[st].pc = "lock"
    /\ \/ \E x \in Streams :
            x # st /\ recv[x].pc = "emit" /\ recv[x].sess = recv[st].sess
       \/ \E k \in Sends :
            send[k].pc \in {"lock_conn", "io"} /\ send[k].sess = recv[st].sess

\* C16 (concurrent dispatch reads), as claimed: the dispatch of a receiver is
\* not held up by the dispatch of another receiver or by a send in progress.
C16_ConcurrentDispatch ==
    \A st \in Streams : C16_Contended(st) => ENABLED recv_lock(st)

\* What the code does instead: at most one receiver of a session is in its
\* dispatch at a time, and none while a send on the session is in progress.
C16_Exclusive ==
    \A st \in Streams :
        recv[st].pc = "emit" =>
            /\ \A x \in Streams :
                 (x # st /\ recv[x].sess = recv[st].sess) => recv[x].pc # "emit"
            /\ \A k \in Sends :
                 send[k].sess = recv[st].sess => send[k].pc \notin {"lock_conn", "io"}

\* ---------------------------------------------------------------------- C17
\* C17 (length prefix value), as claimed: on the stream of every send that
\* returned Ok, the four prefix bytes read as a big-endian unsigned integer
\* are the number of bytes written after them.
C17_PrefixIsLength ==
    \A k \in Sends :
        send[k].res = "Ok" =>
            from_be_bytes(wire[StreamOfSend(k)].prefix)
                = ByteLen(wire[StreamOfSend(k)].body)

\* What the code does instead: the prefix is the number of bytes modulo 2^32.
C17_PrefixIsLengthMod ==
    \A k \in Sends :
        send[k].res = "Ok" =>
            LET n == ByteLen(wire[StreamOfSend(k)].body)
            IN from_be_bytes(wire[StreamOfSend(k)].prefix)
                 = [hi |-> n.hi % Limb, lo |-> n.lo]

\* ---------------------------------------------------------------------- C18
\* The tasks that take locks.
C18_Tasks ==
    {<<"send", k>> : k \in Sends} \cup {<<"recv", st>> : st \in Streams}
    \cup {<<"accept", c>> : c \in Conns}

\* The lock task t is waiting for: <<"state", s>>, <<"conn", c>> or none.
C18_Requested(t) ==
    CASE t[1] = "send" /\ send[t[2]].pc = "lock_state" ->
           <<"state", send[t[2]].sess>>
      [] t[1] = "send" /\ send[t[2]].pc = "lock_conn" ->
           <<"conn", send[t[2]].conn>>
      [] t[1] = "recv" /\ recv[t[2]].pc = "lock" -> <<"state", recv[t[2]].sess>>
      [] OTHER -> <<"none", 0>>

\* The locks task t holds.
C18_Held(t) ==
    {<<"state", s>> : s \in {x \in Sessions : stateLock[x] = t}}
    \cup {<<"conn", c>> : c \in {x \in Conns : connLock[x] = t}}

\* The task that holds the lock t is waiting for, or NoHolder.
C18_Blocker(t) ==
    LET l == C18_Requested(t)
    IN CASE l[1] = "state" -> stateLock[l[2]]
         [] l[1] = "conn" -> connLock[l[2]]
         [] OTHER -> NoHolder

\* Task t, which waits for no held lock, can take its next step.
C18_CanStep(t) ==
    CASE t[1] = "send" /\ send[t[2]].pc = "lock_state" ->
           ENABLED send_lock_state(t[2])
      [] t[1] = "send" /\ send[t[2]].pc = "lock_conn" ->
           ENABLED send_lock_conn(t[2])
      [] t[1] = "send" -> ENABLED (\E ok \in BOOLEAN : send_io(t[2], ok))
      [] t[1] = "recv" /\ recv[t[2]].pc = "lock" -> ENABLED recv_lock(t[2])
      [] t[1] = "recv" -> ENABLED (\E ok \in BOOLEAN : recv_emit(t[2], ok))
      [] t[1] = "accept" ->
           ENABLED (\E ok \in BOOLEAN : accept_populate(t[2], t[2], ok))

C18_State ==
    \* the connection lock is taken by sends only, under the state lock
    /\ \A c \in Conns : connLock[c] # NoHolder =>
         /\ connLock[c][1] = "send"
         /\ stateLock[send[connLock[c][2]].sess] = connLock[c]
    \* whoever asks for the state lock holds no lock
    /\ \A t \in C18_Tasks :
         C18_Requested(t)[1] = "state" => C18_Held(t) = {}
    \* accept and the receivers hold nothing but the state lock
    /\ \A t \in C18_Tasks :
         t[1] # "send" => \A l \in C18_Held(t) : l[1] = "state"
    \* no cycle: a chain of waiting tasks has at most two links and ends in
    \* a task that can take a step
    /\ \A t \in C18_Tasks :
         LET b == C18_Blocker(t)
             bb == C18_Blocker(b)
         IN /\ b # t
            /\ bb # t
            /\ b # NoHolder => bb # b
            /\ bb # NoHolder => C18_Blocker(bb) = NoHolder /\ C18_CanStep(bb)
            /\ (b # NoHolder /\ bb = NoHolder) => C18_CanStep(b)
            /\ (C18_Requested(t)[1] # "none" /\ b = NoHolder) => C18_CanStep(t)

\* C18 (deadlock freedom).  The connection lock is only taken under the
\* state lock, the state lock is never asked for while holding a lock, no
\* tasks wait for each other's locks in a cycle, and every task that waits
\* for a lock eventually gets past it, the stream operations of the holders
\* completing.
C18_DeadlockFreedom ==
    /\ []C18_State
    /\ \A k \in Sends : (send[k].pc = "lock_state") ~> (send[k].pc # "lock_state")
    /\ \A k \in Sends : (send[k].pc = "lock_conn") ~> (send[k].pc # "lock_conn")
    /\ \A st \in Streams : (recv[st].pc = "lock") ~> (recv[st].pc # "lock")

\* A receiver and a send both wait for the state lock, held by another send
\* that holds the connection lock too and is writing.
C18_Witness ==
    \E st \in Streams, j, k \in Sends :
        /\ recv[st].pc = "lock"
        /\ C18_Blocker(<<"recv", st>>) = <<"send", k>>
        /\ send[j].pc = "lock_state"
        /\ C18_Blocker(<<"send", j>>) = <<"send", k>>
        /\ C18_Held(<<"send", k>>) = {<<"state", 0>>, <<"conn", send[k].conn>>}
        /\ send[k].pc = "io"

\* ---------------------------------------------------------------------- C19
\* The SessionState s has its peer identity and its connection.
C19_Populated(s) == sess[s].peer_id # 0 /\ sess[s].connection # 0

\* The positions of the session-connected event of connection c in log.
C19_ConnectedAt(log, c) ==
    {i \in 1..Len(log) : log[i].name = "session-connected"
                         /\ log[i].src = <<"conn", c>>}

\* C19 as claimed: by the time a stream of a connection is accepted, the
\* SessionState is populated and the session-connected event of the
\* connection has been emitted.
C19_AsClaimed ==
    \A st \in Streams :
        recv[st].pc # "none" =>
            /\ C19_Populated(recv[st].sess)
            /\ C19_ConnectedAt(events[recv[st].sess], recv[st].conn) # {}

C19_State ==
    \A st \in Streams :
        recv[st].pc # "none" =>
            /\ C19_Populated(recv[st].sess)
            /\ sess[recv[st].sess].app_handle =>
                 \E i \in C19_ConnectedAt(events[recv[st].sess], recv[st].conn) :
                     \A j \in MessageEventsOf(st) : i < j
            /\ ~sess[recv[st].sess].app_handle => MessageEventsOf(st) = {}

C19_Step ==
    \A st \in Streams :
        (recv[st].pc = "none" /\ recv'[st].pc # "none") =>
            /\ C19_Populated(recv'[st].sess)
            /\ sess[recv'[st].sess].app_handle =>
                 C19_ConnectedAt(events[recv'[st].sess], recv'[st].conn) # {}

\* C19, amended (lifecycle ordering).  When a stream of a connection is
\* accepted the SessionState is already populated, and stays so for every
\* receiver; if a sink is configured, the session-connected event of the
\* connection is already in what the sink was handed, before every
\* session-message of the connection's streams; without a sink there is
\* neither event.
C19_LifecycleOrdering == [][C19_Step]_vars /\ []C19_State

\* The handler accepted two connections; the sink was handed the
\* session-connected of both and then the message of a stream of the second.
C19_Witness ==
    \E st \in Streams :
        /\ recv[st].conn = 2
        /\ recv[st].res = "Ok"
        /\ C19_ConnectedAt(events[0], 1) = {1}
        /\ C19_ConnectedAt(events[0], 2) = {2}
        /\ MessageEventsOf(st) = {3}

\* ---------------------------------------------------------------------- C20
\* Receiver st is waiting for bytes that have not arrived on a stream the
\* peer has not closed.
C20_Stalled(st) ==
    \/ /\ recv[st].pc = "read_len"
       /\ ReadOutcomes(Sz(Len(wire[st].prefix)), Sz(4), wire[st].st,
                       conn[recv[st].conn].live) = {}
    \/ /\ recv[st].pc = "read_body"
       /\ ReadOutcomes(ByteLen(wire[st].body), recv[st].len, wire[st].st,
                       conn[recv[st].conn].live) = {}

\* Some receiver is stalled.
C20_SomeStalled == \E st \in Streams : C20_Stalled(st)

C20_State ==
    \* a receiver holds the state lock only in its dispatch, with the whole
    \* body read and decoded, and never holds a connection lock
    /\ \A st \in Streams :
         /\ <<"conn", recv[st].conn>> \notin C18_Held(<<"recv", st>>)
         /\ C18_Held(<<"recv", st>>) # {} =>
              /\ recv[st].pc = "emit"
              /\ recv[st].nread = recv[st].len
              /\ recv[st].msg = from_bytes(TakeBytes(wire[st].body, recv[st].len))
              /\ recv[st].msg # DecodeError
    \* with stalled receivers around, the loop accepts the next stream,
    \* other receivers take the free lock and dispatch, sends go on
    /\ C20_SomeStalled =>
         /\ \A c \in 1..RecvConns :
              (loop_running(conn[c]) /\ \E x \in EnvStreams : ~wire[x].used) =>
                  ENABLED (\E content \in SoloContents :
                             accept_uni_ok(c, content, EnvStreams))
         /\ \A x \in Streams :
              /\ (recv[x].pc = "lock" /\ stateLock[recv[x].sess] = NoHolder) =>
                   ENABLED recv_lock(x)
              /\ recv[x].pc = "emit" =>
                   ENABLED (\E ok \in BOOLEAN : recv_emit(x, ok))
         /\ \A k \in Sends :
              /\ (send[k].pc = "lock_state" /\ stateLock[send[k].sess] = NoHolder) =>
                   ENABLED send_lock_state(k)
              /\ send[k].pc \in {"lock_conn", "io"} => C18_CanStep(<<"send", k>>)
         /\ \A t \in C18_Tasks :
              C18_Blocker(t)[1] = "recv" => ~C20_Stalled(C18_Blocker(t)[2])

\* C20 (stalled streams hold no lock).  A receiver takes the state lock
\* only after it has read the prefix and the body and decoded the message,
\* and holds nothing while it waits for bytes; with any of the streams
\* stalled for ever, the loop still accepts streams, every receiver whose
\* stream was written and finished still ends, and every send that was
\* called still returns.
C20_StalledHoldNoLock ==
    /\ []C20_State
    /\ \A st \in Streams :
         (recv[st].pc # "none" /\ wire[st].st = "fin") ~> (recv[st].pc = "done")
    /\ \A k \in Sends : (send[k].pc # "idle") ~> (send[k].pc = "done")

\* One stream is stalled after its prefix; after it the loop accepted
\* another, whose message was dispatched, and a send returned Ok.
C20_Witness ==
    \E st, x \in Streams, k \in Sends :
        /\ st < x
        /\ C20_Stalled(st)
        /\ recv[st].pc = "read_body"
        /\ recv[x].res = "Ok"
        /\ send[k].res = "Ok"

=============================================================================
